---------------------------- MODULE Spec2Model ----------------------------
(***************************************************************************)
(* A model of the concurrent enrichment pipeline of src/CheckURL.py:       *)
(* process_csv_async (the controller), process_radio (the per-station      *)
(* orchestrator), async_retry and the probes, the dedup ledger, the two    *)
(* caches, the semaphore and the output store.                             *)
(*                                                                         *)
(* A station task runs on the asyncio event loop: it runs without          *)
(* interruption from one await to the next, so every action below is the   *)
(* code between two suspension points of one task.  The outside world      *)
(* (stream servers, DNS, ipinfo.io, Nominatim, ffprobe) answers each call  *)
(* with one of the outcomes listed in the variable net.                    *)
(*                                                                         *)
(* The output store is a sequence of lines, each line the sequence of its  *)
(* cells.  outfile is a buffered text file: writerow() hands one whole     *)
(* line to the buffer, and the buffer reaches the file in whole write()    *)
(* calls, when it is full, or at close().                                  *)
(***************************************************************************)
EXTENDS Integers, Sequences, FiniteSets, TLC

\* ------------------------------------------------------------------ bounds
\* Longest input list of the pool specification (Spec).
MaxStations == 2
\* Longest input list of the restart specification (SpecRuns).
MaxRunStations == 2
\* Number of process runs against the same output store in SpecRuns.
MaxRuns == 2
\* Longest input list of the single-station specifications.
MaxSoloStations == 1
MaxFairStations == 1
\* Longest input list of the geolocation specification (SpecGeo).
MaxGeoStations == 2
\* Longest input list of the retry specification (SpecRetry).
MaxRetryStations == 1
MaxQueueStations == 2
MaxVoidStations == 2

\* ------------------------------------------------------- program constants
\* retries= of the four async_retry calls of process_radio.
LiveRetries == 3
GeoRetries == 3
MediaRetries == 2
IcyRetries == 2

\* delay=1 (seconds) and backoff=2 of async_retry, and the bound 0.1
\* (seconds) its jitter stays below; times are in milliseconds.
BaseDelay == 1000
BackoffFactor == 2
JitterBound == 100

\* ------------------------------------------------------------------ values
\* Python's None: the value of a column a short input row does not have
\* (csv.DictReader's restval), and the result of a failed lookup.
NoneV == "<None>"
\* The "unknown" sentinel of the code.
Unknown == "?"
\* A string holding a lone surrogate (aiohttp decodes header bytes with
\* surrogateescape), which utf-8 cannot encode.
Surrogate == "<U+DCE9>"

\* fieldnames of process_csv_async, the fixed column set.
Header ==
    << "name", "url", "availability", "country", "country_code", "latitude",
       "longitude", "codec", "sample_rate", "bitrate", "channels",
       "channel_layout", "icy-br", "icy-description", "icy-genre", "icy-name",
       "icy-pub" >>

NumCols == Len(Header)

\* clean_text: a non-string is returned as it is; in a string, what utf-8
\* cannot encode is replaced by "?".
CleanText(s) ==
    IF s = NoneV THEN s
    ELSE IF s = Surrogate THEN "?"
    ELSE s

\* The csv writer's rendering of one field: None is written as the empty
\* string.
CsvField(v) == IF v = NoneV THEN "" ELSE v

\* dict.get(col, default) on a row of the input list.
RowGet(row, col, default) == IF col \in DOMAIN row THEN row[col] ELSE default

\* ------------------------------------------------------------ the stations
Station(n, u) == [name |-> n, url |-> u]

\* Input rows: two stations on the same server, and a short row (a line
\* with a name and no url cell).
Stations == { Station("A", "u1"), Station("B", "u1"), Station("A", NoneV) }

\* The input lists of at most n rows.
InputsUpTo(n) == UNION { [1..k -> Stations] : k \in 1..n }

\* --------------------------------------------------------------- the world
\* What each external call may answer.
\*   live : "200" (status 200), "206" (another status of the 2xx class),
\*          "404" (a status outside it), "exc" (raises)
\*   dns  : an address, or "exc" (gethostbyname raises)
\*   geo  : "well" (the body's "loc" is "12.34,56.78"), "half" (the "loc"
\*          is "12.34", without a comma), "text" (the "loc" is "a,b", no
\*          numbers), "missing" (the body has no "loc"), "exc" (the
\*          request or the JSON parse raises)
\*   rgeo : "found" (an address with country and country_code), "nowhere"
\*          (no location), "exc" (the geocoder raises)
\*   media: "audio" (stdout lists an audio stream), "empty" (stdout lists
\*          no stream), "nonzero" (ffprobe exits with a non-zero status,
\*          its stdout empty or an empty JSON object), "exc" (stdout is
\*          not JSON, or the spawn fails)
\*   icy  : "tags" (all five headers present), "blank" (the icy-br header
\*          is present and empty, the others absent), "bare" (none), "exc"
\*   jitter : random.random() * 0.1 of async_retry, in milliseconds
FullNet ==
    [ live  |-> { "200", "206", "404", "exc" },
      dns   |-> { "ip1", "exc" },
      geo   |-> { "well", "half", "text", "missing", "exc" },
      rgeo  |-> { "found", "nowhere", "exc" },
      media |-> { "audio", "empty", "nonzero", "exc" },
      icy   |-> { "tags", "blank", "bare", "exc" },
      jitter |-> { 0 } ]

\* A quiet world: every service answers; a stream server answers 404 at
\* times and the tag request fails at times.
CalmNet ==
    [ live  |-> { "200", "404" },
      dns   |-> { "ip1" },
      geo   |-> { "well" },
      rgeo  |-> { "found" },
      media |-> { "audio" },
      icy   |-> { "tags", "exc" },
      jitter |-> { 0 } ]

\* A failing world: every call answers well or raises.
FailNet ==
    [ live  |-> { "200", "exc" },
      dns   |-> { "ip1", "exc" },
      geo   |-> { "well", "exc" },
      rgeo  |-> { "found", "exc" },
      media |-> { "audio", "exc" },
      icy   |-> { "tags", "exc" },
      jitter |-> { 0 } ]

\* A world where only the geolocation services vary: ipinfo.io answers
\* with a whole, a partial or no "loc", or fails.
GeoNet ==
    [ live  |-> { "200" },
      dns   |-> { "ip1" },
      geo   |-> { "well", "half", "missing", "exc" },
      rgeo  |-> { "found" },
      media |-> { "audio" },
      icy   |-> { "tags" },
      jitter |-> { 0 } ]

\* A world where ipinfo.io answers with a whole "loc" or one that lacks a
\* component: none ("missing") or an empty first one ("empty": ",56.78"),
\* or fails.
VoidNet ==
    [ live  |-> { "200" },
      dns   |-> { "ip1" },
      geo   |-> { "well", "missing", "empty", "exc" },
      rgeo  |-> { "found" },
      media |-> { "audio" },
      icy   |-> { "tags" },
      jitter |-> { 0 } ]

\* A world for the retry policy: every call under async_retry answers
\* well or raises, and the jitter is at either end of its range.
RetryNet ==
    [ live  |-> { "200", "exc" },
      dns   |-> { "ip1" },
      geo   |-> { "well", "exc" },
      rgeo  |-> { "found" },
      media |-> { "audio", "exc" },
      icy   |-> { "tags", "exc" },
      jitter |-> { 0, JitterBound - 1 } ]

\* Only the liveness check may fail.
QueueNet ==
    [ live  |-> { "200", "exc" },
      dns   |-> { "ip1" },
      geo   |-> { "well" },
      rgeo  |-> { "found" },
      media |-> { "audio" },
      icy   |-> { "tags" },
      jitter |-> { 0 } ]

\* A still world: every call answers, and answers well.
StillNet ==
    [ live  |-> { "200" },
      dns   |-> { "ip1" },
      geo   |-> { "well" },
      rgeo  |-> { "found" },
      media |-> { "audio" },
      icy   |-> { "tags" },
      jitter |-> { 0 } ]

\* The characters of a string, put together again.
RECURSIVE Join(_)
Join(cs) == IF cs = << >> THEN "" ELSE Head(cs) \o Join(Tail(cs))

\* str.split(sep) on the characters cs: the pieces between the separators,
\* one piece (the whole, may be empty) when there is no separator.
RECURSIVE Split(_, _)
Split(cs, sep) ==
    IF \A k \in 1..Len(cs) : cs[k] # sep THEN << Join(cs) >>
    ELSE LET k == CHOOSE k \in 1..Len(cs) :
                      cs[k] = sep /\ \A j \in 1..(k - 1) : cs[j] # sep
         IN  << Join(SubSeq(cs, 1, k - 1)) >>
                 \o Split(SubSeq(cs, k + 1, Len(cs)), sep)

\* data.get("loc", ""): the characters of the body's "loc" string, the
\* empty string when the body has none.
LocText(o) ==
    CASE o = "well" -> << "1", "2", ".", "3", "4", ",", "5", "6", ".", "7", "8" >>
      [] o = "half" -> << "1", "2", ".", "3", "4" >>
      [] o = "text" -> << "a", ",", "b" >>
      [] o = "empty" -> << ",", "5", "6", ".", "7", "8" >>
      [] OTHER      -> << >>

\* data.get("loc", "").split(","): the components of the "loc" string.
LocParts(o) == Split(LocText(o), ",")

\* Faulty variant of LatLong: the two components change places.
LatLongSwapped(loc) ==
    << IF Len(loc) > 1 /\ loc[2] # "" THEN loc[2] ELSE Unknown,
       IF Len(loc) > 0 /\ loc[1] # "" THEN loc[1] ELSE Unknown >>

\* latitude, longitude of get_server_info from the split "loc".
LatLong(loc) ==
    << IF Len(loc) > 0 /\ loc[1] # "" THEN loc[1] ELSE Unknown,
       IF Len(loc) > 1 /\ loc[2] # "" THEN loc[2] ELSE Unknown >>

\* Faulty variant of CountryOf: a failed call gives None, None.
CountryOrNone(o) ==
    IF o = "found" THEN << "France", "fr" >>
    ELSE IF o = "nowhere" THEN << Unknown, Unknown >>
    ELSE << NoneV, NoneV >>

\* country, country_code of reverse_geocode from the geocoder's answer.
CountryOf(o) == IF o = "found" THEN << "France", "fr" >> ELSE << Unknown, Unknown >>

\* codec, sample_rate, bitrate, channels, channel_layout of
\* get_audio_stream_info_async from ffprobe's JSON.
UnknownAudio == << Unknown, Unknown, Unknown, Unknown, Unknown >>
AudioOf(o) ==
    IF o = "audio" THEN << "mp3", "44100", "128000", "2", "stereo" >>
    ELSE UnknownAudio

\* The five tags of get_icy_metadata from the response headers, in the
\* order icy-br, icy-description, icy-genre, icy-name, icy-pub.
UnknownIcy == << Unknown, Unknown, Unknown, Unknown, Unknown >>
IcyOf(o) ==
    CASE o = "tags"  -> << "128", "news", "talk", "Radio A", "1" >>
      [] o = "blank" -> << "", Unknown, Unknown, Unknown, Unknown >>
      [] OTHER       -> UnknownIcy

\* ------------------------------------ Map_test.py: get_icy_metadata
\* The variant of the tag probe that also reads the in-band metadata
\* block.  Strings it searches are kept as their characters.
TitleKey == << "S", "t", "r", "e", "a", "m", "T", "i", "t", "l", "e", "=" >>
TitleOpen == << "S", "t", "r", "e", "a", "m", "T", "i", "t", "l", "e", "=", "'" >>
TitleClose == << "'", ";" >>
Digits == { "0", "1", "2", "3", "4", "5", "6", "7", "8", "9" }

\* pat is in cs at place k, and "pat in cs".
OccursAt(cs, pat, k) ==
    k + Len(pat) - 1 <= Len(cs) /\ SubSeq(cs, k, k + Len(pat) - 1) = pat
Contains(cs, pat) == \E k \in 1..Len(cs) : OccursAt(cs, pat, k)

\* str.split(pat) for a separator of several characters.
RECURSIVE SplitAt(_, _)
SplitAt(cs, pat) ==
    IF ~Contains(cs, pat) THEN << cs >>
    ELSE LET k == CHOOSE k \in 1..Len(cs) :
                      OccursAt(cs, pat, k)
                          /\ \A j \in 1..(k - 1) : ~OccursAt(cs, pat, j)
         IN  << SubSeq(cs, 1, k - 1) >>
                 \o SplitAt(SubSeq(cs, k + Len(pat), Len(cs)), pat)

\* int(s) returns: s is made of digits.
IntOk(cs) == cs # << >> /\ \A k \in 1..Len(cs) : cs[k] \in Digits

\* An exception raised inside the try block.
Raised == "<raise>"

\* Lines 119-120: the title is looked for when "StreamTitle=" is in the
\* block; it is what stands between "StreamTitle='" and the next "';".
\* Without "StreamTitle='" the list of the first split has one element and
\* [1] raises IndexError.
StreamTitleOf(metadata) ==
    IF Contains(metadata, TitleKey)
    THEN LET parts == SplitAt(metadata, TitleOpen)
         IN  IF Len(parts) < 2 THEN Raised
             ELSE Join(SplitAt(parts[2], TitleClose)[1])
    ELSE Unknown

\* What the except clause returns: every tag and the title "?".
AllTagsUnknown == UnknownIcy \o << Unknown >>

\* get_icy_metadata of Map_test.py: the five header tags and the
\* StreamTitle.  resp.status is "exc" when requests.get raises, resp.read
\* is "exc" when reading the body raises; the block is read only when the
\* icy-metaint header is there, and int() of the header may raise.
get_icy_metadata(resp) ==
    IF resp.status = "exc" THEN AllTagsUnknown
    ELSE LET tags == IcyOf(resp.headers) IN
         IF ~resp.hasMetaint THEN tags \o << Unknown >>
         ELSE IF ~IntOk(resp.metaint) \/ resp.read = "exc" THEN AllTagsUnknown
         ELSE LET title == StreamTitleOf(resp.raw)
              IN  IF title = Raised THEN AllTagsUnknown
                  ELSE tags \o << title >>

\* The metadata blocks a server may send: a whole title, a title without
\* quotes, a title whose end is missing, a block without a title, and no
\* block (a length byte of 0).
Blocks ==
    { << "S", "t", "r", "e", "a", "m", "T", "i", "t", "l", "e", "=", "'", "a", "'", ";" >>,
      << "S", "t", "r", "e", "a", "m", "T", "i", "t", "l", "e", "=", "a", ";" >>,
      << "S", "t", "r", "e", "a", "m", "T", "i", "t", "l", "e", "=", "'", "a" >>,
      << "x" >>,
      << >> }

\* The responses get_icy_metadata may get.
Responses ==
    [ status : { "ok", "exc" }, headers : { "tags", "blank", "bare" },
      hasMetaint : BOOLEAN, metaint : { << "1", "6" >>, << "x" >> },
      raw : Blocks, read : { "ok", "exc" } ]

\* No request of Map_test.py is made.
NoResponse ==
    [ status |-> "exc", headers |-> "bare", hasMetaint |-> FALSE,
      metaint |-> << >>, raw |-> << >>, read |-> "exc" ]

\* ------------------------------------------------------------------- state
VARIABLES
    response,          \* Map_test.py: the response get_icy_metadata reads
    icy_metadata,      \* Map_test.py: the dict get_icy_metadata returned
    input,             \* list(csv.DictReader(infile)): the input rows
    concurrency,       \* the concurrency= argument of process_csv_async
    net,               \* the answers the outside world may give
    disk,              \* whether the input and the output file can be opened
    runsLeft,          \* process starts still to come
    fileExists,        \* os.path.exists(output_file)
    file,              \* the lines of the output store on disk
    phase,             \* "idle", "running", "finished", "interrupted",
                       \* "crashed", "failed"
    buf,               \* lines written to outfile and not yet on disk
    existing_entries,  \* the dedup ledger
    ip_cache,          \* address -> (latitude, longitude), as a set of pairs
    geo_cache,         \* (latitude, longitude) -> (country, country_code)
    semValue,          \* free slots of sem
    task,              \* per input row: where its sem_task stands, its locals
    claimed,           \* history: rows that inserted their key in this run
    skipped,           \* history: rows that found their key in the ledger
    written,           \* history: the lines each task written in this run
    prev,              \* history: how the run before this one ended
    startFile          \* history: the store's lines when this run started

vars ==
    << response, icy_metadata, input, concurrency, net, disk, runsLeft, fileExists, file, phase, buf,
       existing_entries, ip_cache, geo_cache, semValue, task, claimed,
       skipped, written, prev, startFile >>

Tasks == DOMAIN input

\* A dict as a set of (key, value) pairs: "k in d", d[k] and d[k] = v.
Has(d, k) == \E e \in d : e[1] = k
Get(d, k) == (CHOOSE e \in d : e[1] = k)[2]
Put(d, k, v) == { e \in d : e[1] # k } \cup { << k, v >> }

\* (name, url) of process_radio, the dedup key of an input row.
Key(row) ==
    << CleanText(RowGet(row, "name", "?")), CleanText(RowGet(row, "url", "?")) >>

\* One row of csv.DictReader over the store: the cell under column col of
\* the header line hdr, None when the line is too short, and
\* row.get(col, '?') when the header has no such column.
Field(hdr, line, col) ==
    IF \A j \in 1..Len(hdr) : hdr[j] # col THEN "?"
    ELSE LET j == CHOOSE j \in 1..Len(hdr) : hdr[j] = col
         IN  IF j > Len(line) THEN NoneV ELSE line[j]

\* Faulty variant of LoadExisting: the ledger starts empty.
LoadNothing(exists, f) == {}

\* Faulty variant of LoadExisting: the pairs claimed by the run before are
\* in the ledger as well.
LoadWithClaims(exists, f) ==
    { Key(input[i]) : i \in claimed }
        \cup { << Field(f[1], f[k], "name"), Field(f[1], f[k], "url") >> :
                 k \in 2..Len(f) }

\* load_existing_entries: the (name, url) of every line after the header.
LoadExisting(exists, f) ==
    IF ~exists \/ Len(f) = 0 THEN {}
    ELSE { << Field(f[1], f[k], "name"), Field(f[1], f[k], "url") >> :
             k \in 2..Len(f) }

\* What the steps after the liveness check have answered a task so far.
NoAnswers ==
    [ dns |-> "none", geo |-> "none", rgeo |-> "none", media |-> "none",
      icy |-> "none" ]

\* A task that has not run yet, waiting at "async with sem".  Beside the
\* locals of process_radio it carries the locks it holds and four history
\* fields: calls, the probes it has called; order, the steps of
\* process_radio in the order it entered them; live, how its last
\* liveness attempt ended; got, how the last attempt of each later step
\* ended ("hit" when a cache answered).  delay is the sleep_time of the
\* last sleep of the async_retry call it is in.
NewTask ==
    [ at |-> "sem", probe |-> "none", attempt |-> 0, calls |-> {},
      order |-> << >>, locks |-> {}, got |-> NoAnswers, delay |-> 0,
      live |-> "none", availability |-> Unknown, ip |-> NoneV,
      latitude |-> Unknown, longitude |-> Unknown,
      country |-> Unknown, country_code |-> Unknown,
      audio |-> UnknownAudio, icy |-> UnknownIcy ]

\* A task past process_radio (its locals are gone; the history of its
\* calls stays), and a task that went with its process.
EndTask(t, where) ==
    [ NewTask EXCEPT !.at = where, !.calls = t.calls, !.live = t.live,
                     !.order = t.order, !.locks = t.locks, !.got = t.got ]
GoneTask == [ NewTask EXCEPT !.at = "gone" ]

\* The file system: both files can be opened, or open(input_file) raises,
\* or open(output_file) raises.
Disks == { "ok", "no_input", "no_output" }

InitRun(inputs, world, runs) ==
    /\ input \in inputs
    /\ concurrency \in 1..Len(input)
    /\ net = world
    /\ disk \in Disks
    /\ runsLeft = runs
    /\ fileExists = FALSE
    /\ file = << >>
    /\ phase = "idle"
    /\ buf = << >>
    /\ existing_entries = {}
    /\ ip_cache = {}
    /\ geo_cache = {}
    /\ semValue = 0
    /\ task = [i \in DOMAIN input |-> GoneTask]
    /\ claimed = {}
    /\ skipped = {}
    /\ written = [i \in DOMAIN input |-> << >>]
    /\ prev = "none"
    /\ startFile = << >>

\* The state before a run of CheckURL.py; Map_test.py is not run.
InitWith(inputs, world, runs) ==
    /\ InitRun(inputs, world, runs)
    /\ response = NoResponse
    /\ icy_metadata = << >>

\* Faulty variant of StoreEmpty: the header is written by every run.
StoreEmptyAlways(f) == TRUE

\* os.path.getsize(output_file) == 0, asked once outfile is open.
StoreEmpty(f) == Len(f) = 0

\* Faulty variant of CanStart: the error of open() is swallowed.
CanStartAnyway(d) == TRUE

\* Both open() calls of process_csv_async return.
CanStart(d) == d = "ok"

\* process_csv_async up to asyncio.gather: the ledger is loaded, outfile is
\* opened for append, the header is written when the store is empty, the
\* input is read and one sem_task per row is created.  The caches are those
\* of a new process.
StartRun ==
    /\ phase # "running"
    /\ runsLeft > 0
    /\ CanStart(disk)
    /\ runsLeft' = runsLeft - 1
    /\ existing_entries' = LoadExisting(fileExists, file)
    /\ fileExists' = TRUE
    /\ buf' = IF StoreEmpty(file) THEN << Header >> ELSE << >>
    /\ ip_cache' = {}
    /\ geo_cache' = {}
    /\ semValue' = concurrency
    /\ task' = [i \in Tasks |-> NewTask]
    /\ claimed' = {}
    /\ skipped' = {}
    /\ written' = [i \in Tasks |-> << >>]
    /\ prev' = phase
    /\ startFile' = file
    /\ phase' = "running"
    /\ UNCHANGED << response, icy_metadata, input, concurrency, net, disk, file >>

\* ------------------------------------------------------- process_radio
\* The dict process_radio returns, as the line csv.DictWriter writes for
\* it: the enrichment fields go through clean_text, every field through
\* the writer's rendering.
Record(row, t) ==
    << Key(row)[1], Key(row)[2], t.availability,
       CleanText(t.country), CleanText(t.country_code),
       CleanText(t.latitude), CleanText(t.longitude),
       CleanText(t.audio[1]), CleanText(t.audio[2]), CleanText(t.audio[3]),
       CleanText(t.audio[4]), CleanText(t.audio[5]),
       CleanText(t.icy[1]), CleanText(t.icy[2]), CleanText(t.icy[3]),
       CleanText(t.icy[4]), CleanText(t.icy[5]) >>

CsvLine(rec) == [j \in 1..Len(rec) |-> CsvField(rec[j])]

\* "with lock:" is entered, and left.
Acquire(t, l) == [t EXCEPT !.locks = @ \cup {l}]

\* Faulty variant of Release: the lock stays with the task.
ReleaseForgot(t, l) == t

Release(t, l) == [t EXCEPT !.locks = @ \ {l}]

\* A whole "with lock:" block of dict or writer operations: there is no
\* await inside any of them.
Locked(t, l) == Release(Acquire(t, l), l)

\* A probe is called for the first time (attempt 1 of async_retry, or the
\* one call of reverse_geocode): the task suspends in it.
Call(t, p) ==
    [t EXCEPT !.at = "call", !.probe = p, !.attempt = 1, !.delay = 0,
              !.calls = @ \cup {p}, !.order = Append(@, p)]

\* Faulty variant of ToIcy: the geolocation lookup is made again after the media
\* probe.
ToGeoAgain(t) == Call(t, "geo")

\* Faulty variant of ToMedia: without coordinates the media probe is skipped.
ToMediaIfLocated(t) ==
    IF t.latitude = Unknown THEN Call(t, "icy") ELSE Call(t, "media")

\* Lines 236 and 239: the media probe, then the tag probe.
ToMedia(t) == Call(t, "media")
ToIcy(t) == Call(t, "icy")

\* Faulty variant of Located: the coordinates are not looked at.
LocatedAnyway(lat, lon) == TRUE

\* Line 234: latitude != "?" and longitude != "?".
Located(lat, lon) == lat # Unknown /\ lon # Unknown

\* Faulty variant of FloatOk: float() takes any string.
FloatAny(s) == TRUE

\* float(s) of line 150 returns: s is one of the model's strings that
\* spell a number.
FloatOk(s) == s \in { "12.34", "56.78" }

\* Lines 234-235, and reverse_geocode up to its await: no call when a
\* coordinate is unknown, the cached pair when the key is cached (looked
\* up under geo_cache_lock); when float() raises on a coordinate the
\* except clause returns ("?", "?") before anything is awaited.
ToReverse(t, gc) ==
    IF Located(t.latitude, t.longitude)
    THEN LET t0 == Locked(t, "geo_cache_lock") IN
         IF Has(gc, << t.latitude, t.longitude >>)
         THEN LET c == Get(gc, << t.latitude, t.longitude >>)
              IN  ToMedia([t0 EXCEPT !.country = c[1], !.country_code = c[2],
                                     !.calls = @ \cup {"rgeo_hit"},
                                     !.order = Append(@, "rgeo"),
                                     !.got.rgeo = "hit"])
         ELSE IF FloatOk(t.latitude) /\ FloatOk(t.longitude)
         THEN Call(t0, "rgeo")
         ELSE ToMedia([t0 EXCEPT !.calls = @ \cup {"rgeo_bad"},
                                 !.order = Append(@, "rgeo"),
                                 !.got.rgeo = "badfloat"])
    ELSE ToMedia(t)

\* Lines 232-233: latlong is the pair get_server_info returned.
WithLatLong(t, latlong, gc) ==
    ToReverse([t EXCEPT !.latitude = latlong[1], !.longitude = latlong[2]], gc)

\* Faulty variant of GeoAttempt: the cache is not looked at.
GeoAttemptUncached(t, n, ic, gc) ==
    [t EXCEPT !.at = "call", !.probe = "geo", !.attempt = n,
              !.calls = @ \cup {"geo"},
              !.delay = IF n = 1 THEN 0 ELSE @,
              !.order = IF n = 1 THEN Append(@, "geo") ELSE @]

\* An attempt of get_server_info up to its await: the cached pair when the
\* address is cached (looked up under ip_cache_lock), else the request is
\* sent.
GeoAttempt(t, n, ic, gc) ==
    LET t0 == [Locked(t, "ip_cache_lock") EXCEPT
                   !.delay = IF n = 1 THEN 0 ELSE @,
                   !.order = IF n = 1 THEN Append(@, "geo") ELSE @]
    IN  IF Has(ic, t.ip)
        THEN WithLatLong([t0 EXCEPT !.calls = @ \cup {"geo_hit"},
                                    !.got.geo = "hit"],
                         Get(ic, t.ip), gc)
        ELSE [t0 EXCEPT !.at = "call", !.probe = "geo", !.attempt = n,
                        !.calls = @ \cup {"geo"}]

\* Faulty variant of Resolved: the lookup is made without an address.
ResolvedAnyway(ip) == TRUE

\* "if ip_address:" of line 230: get_ip_from_url returned an address, not
\* None.
Resolved(ip) == ip # "exc"

\* Lines 228-231 after a successful liveness check: the address is
\* resolved (ip is "exc" when gethostbyname raised: get_ip_from_url
\* returns None), then the geolocation lookup or, without an address,
\* the media probe.
Enrich(t, ip, ic, gc) ==
    LET t1 == [t EXCEPT !.availability = "1", !.calls = @ \cup {"dns"},
                        !.order = Append(@, "dns"), !.got.dns = ip]
    IN  IF Resolved(ip)
        THEN GeoAttempt([t1 EXCEPT !.ip = ip], 1, ic, gc)
        ELSE ToMedia(t1)

\* What session.get(url) of check_radio_url may do: without a url (None)
\* it raises before anything is sent.
LiveOutcomes(world, url) == IF url = NoneV THEN { "exc" } ELSE world.live

\* retries= of the async_retry call that wraps each probe.
Retries(p) ==
    CASE p = "live"  -> LiveRetries
      [] p = "geo"   -> GeoRetries
      [] p = "media" -> MediaRetries
      [] p = "icy"   -> IcyRetries

\* Faulty variant of Exhausted: there is always another attempt.
ExhaustedNever(t) == FALSE

\* async_retry, the except branch: on the last attempt None is returned,
\* otherwise the task sleeps before the next attempt.
Exhausted(t) == t.attempt = Retries(t.probe)

\* Faulty variant of GiveUp: the caller cannot go on without a result.
GiveUpFatal(t, next) == [t EXCEPT !.at = "failed"]

\* async_retry after the last failed attempt: None is returned, the
\* caller's "if result:" is false and process_radio goes on to its next
\* step with the fields as they are.
GiveUp(t, next) == next

\* Faulty variant of Backoff: the exception leaves async_retry and ends the task.
BackoffRaise(t, j) == [t EXCEPT !.at = "failed"]

\* Faulty variant of SleepTime: the delay does not grow with the attempt.
SleepTimeFlat(attempt, j) == BaseDelay + j

\* sleep_time of async_retry, line 97, with the jitter j.
SleepTime(attempt, j) == BaseDelay * BackoffFactor ^ (attempt - 1) + j

\* Lines 97-98: the task sleeps sleep_time before the next attempt.
Backoff(t, j) == [t EXCEPT !.at = "sleep", !.delay = SleepTime(t.attempt, j)]

\* Faulty variant of Flushed: the flush cuts where the buffer is full, two cells
\* into the next line.
FlushedTorn(all, k) ==
    IF k < Len(all)
    THEN Append(SubSeq(all, 1, k), SubSeq(all[k + 1], 1, 2))
    ELSE all

\* What reaches the disk when the buffer is flushed up to its k-th line:
\* the text layer hands the raw file whole write() calls, and writerow()
\* makes one write() call per line.
Flushed(all, k) == SubSeq(all, 1, k)

\* sem_task lines 294-297: the row is written to outfile under csv_lock
\* and the task sleeps 0.01 s, still holding its slot.  A write() may take
\* the buffer over its size, and then the lines at its front go to disk.
WriteRow(i, t) ==
    LET line == CsvLine(Record(input[i], t))
        all == Append(buf, line)
    IN  /\ \E k \in 0..Len(all) :
             /\ file' = file \o Flushed(all, k)
             /\ buf' = SubSeq(all, k + 1, Len(all))
        /\ written' = [written EXCEPT ![i] = Append(@, line)]
        /\ task' = [task EXCEPT ![i] = EndTask(Locked(t, "csv_lock"), "pace")]

\* A task step that writes nothing.
Step(i, t) ==
    /\ task' = [task EXCEPT ![i] = t]
    /\ UNCHANGED << file, buf, written >>

\* Faulty variant of SlotFree: acquire never waits.
SlotAlways(v) == TRUE

\* Semaphore.acquire returns at once while a slot is free; else the task
\* waits.
SlotFree(v) == v > 0

\* Faulty variant of Claim: the ledger is replaced by the key.
ClaimOnly(ledger, key) == { key }

\* Faulty variant of Claim: the key is not inserted when the station is claimed.
ClaimForgot(ledger, key) == ledger

\* existing_entries.add(key), under entry_lock right after the lookup.
Claim(ledger, key) == ledger \cup { key }

\* sem_task enters "async with sem" (a free slot is taken) and
\* process_radio runs to its first await: under entry_lock the key is
\* looked up and, when new, inserted; a known key returns None and the
\* task goes to its pacing sleep; a new key starts the liveness check.
TaskStart(i) ==
    /\ phase = "running"
    /\ task[i].at = "sem"
    /\ SlotFree(semValue)
    /\ semValue' = semValue - 1
    /\ IF Key(input[i]) \in existing_entries
       THEN /\ skipped' = skipped \cup {i}
            /\ task' = [task EXCEPT ![i] =
                            EndTask(Locked(task[i], "entry_lock"), "pace")]
            /\ UNCHANGED << existing_entries, claimed >>
       ELSE /\ existing_entries' = Claim(existing_entries, Key(input[i]))
            /\ claimed' = claimed \cup {i}
            /\ task' = [task EXCEPT ![i] =
                            Call(Locked(task[i], "entry_lock"), "live")]
            /\ UNCHANGED skipped
    /\ UNCHANGED << response, icy_metadata, input, concurrency, net, disk, runsLeft, fileExists, file, phase,
                    buf, ip_cache, geo_cache, written,
                    prev, startFile >>

\* Faulty variant of StatusOk: any response counts as available.
StatusAny(o) == o # "exc"

\* resp.status == 200 of check_radio_url.
StatusOk(o) == o = "200"

\* Faulty variant of Unavailable: the address is resolved before the record is made.
UnavailableResolved(t) ==
    [t EXCEPT !.availability = "0", !.calls = @ \cup {"dns"},
              !.order = Append(@, "dns"), !.got.dns = "ip1"]

\* Lines 223-228 for a station that is not available: availability is "0"
\* and the block under 'if availability == "1"' is not entered.
Unavailable(t) == [t EXCEPT !.availability = "0"]

\* Faulty variant of Raises: a status other than 200 raises as well.
RaisesOnStatus(o) == o # "200"

\* check_radio_url raises (what session.get raised: a connection error, a
\* timeout); with a response it returns resp.status == 200, True or False.
Raises(o) == o = "exc"

\* check_radio_url returns or raises.  status == 200 is available and the
\* enrichment starts; another status is unavailable; an exception is
\* retried, and unavailable after the last attempt.  An unavailable
\* station's record is written at once.
LiveReturn(i) ==
    /\ phase = "running"
    /\ task[i].at = "call" /\ task[i].probe = "live"
    /\ \E o \in LiveOutcomes(net, Key(input[i])[2]), ip \in net.dns,
          j \in net.jitter :
        LET t == [task[i] EXCEPT !.live = o] IN
        IF StatusOk(o)
        THEN Step(i, Enrich(t, ip, ip_cache, geo_cache))
        ELSE IF Raises(o) /\ ~Exhausted(t)
        THEN Step(i, Backoff(t, j))
        ELSE WriteRow(i, Unavailable(t))
    /\ UNCHANGED << response, icy_metadata, input, concurrency, net, disk, runsLeft, fileExists, phase,
                    existing_entries, ip_cache, geo_cache, semValue, claimed,
                    skipped,
                    prev, startFile >>

\* asyncio.sleep of async_retry ends: the probe is called again.
RetryWake(i) ==
    /\ phase = "running"
    /\ task[i].at = "sleep"
    /\ LET t == task[i] IN
       IF t.probe = "geo"
       THEN Step(i, GeoAttempt(t, t.attempt + 1, ip_cache, geo_cache))
       ELSE Step(i, [t EXCEPT !.at = "call", !.attempt = @ + 1])
    /\ UNCHANGED << response, icy_metadata, input, concurrency, net, disk, runsLeft, fileExists, phase,
                    existing_entries, ip_cache, geo_cache, semValue, claimed,
                    skipped,
                    prev, startFile >>

\* Faulty variant of CacheResult: a pair with an unknown component is not cached.
CacheWhole(ic, ip, o, ll) ==
    IF o # "exc" /\ ll[1] # Unknown /\ ll[2] # Unknown THEN Put(ic, ip, ll)
    ELSE ic

\* Faulty variant of CacheResult: a failed request is cached as ("?", "?").
CacheAnyResult(ic, ip, o, ll) == Put(ic, ip, ll)

\* Lines 128-134: the pair is put in ip_cache once the request and the
\* parse of its body have succeeded; an exception leaves the try block
\* before the cache is touched.
CacheResult(ic, ip, o, ll) == IF o # "exc" THEN Put(ic, ip, ll) ELSE ic

\* The request of get_server_info returns or raises.  A body is parsed,
\* the pair is cached and returned; an exception is retried, and after the
\* last attempt the coordinates stay unknown.
GeoReturn(i) ==
    /\ phase = "running"
    /\ task[i].at = "call" /\ task[i].probe = "geo"
    /\ \E o \in net.geo, j \in net.jitter :
        LET t == [task[i] EXCEPT !.got.geo = o]
            ll == LatLong(LocParts(o))
        IN  IF o # "exc"
            THEN /\ ip_cache' = CacheResult(ip_cache, t.ip, o, ll)
                 /\ Step(i, WithLatLong(Locked(t, "ip_cache_lock"), ll,
                                        geo_cache))
            ELSE /\ ip_cache' = CacheResult(ip_cache, t.ip, o, ll)
                 /\ IF Exhausted(t) THEN Step(i, GiveUp(t, ToMedia(t)))
                                    ELSE Step(i, Backoff(t, j))
    /\ UNCHANGED << response, icy_metadata, input, concurrency, net, disk, runsLeft, fileExists, phase,
                    existing_entries, geo_cache, semValue, claimed, skipped,
                    prev, startFile >>

\* The geocoder call of reverse_geocode, run in a thread, returns or
\* raises.  A location is cached and returned; no location and an
\* exception give ("?", "?").
ReverseReturn(i) ==
    /\ phase = "running"
    /\ task[i].at = "call" /\ task[i].probe = "rgeo"
    /\ \E o \in net.rgeo :
        LET t0 == [task[i] EXCEPT !.got.rgeo = o]
            t == IF o = "found" THEN Locked(t0, "geo_cache_lock") ELSE t0
            c == CountryOf(o)
        IN  /\ geo_cache' = IF o = "found"
                            THEN Put(geo_cache, << t.latitude, t.longitude >>, c)
                            ELSE geo_cache
            /\ Step(i, ToMedia([t EXCEPT !.country = c[1],
                                         !.country_code = c[2]]))
    /\ UNCHANGED << response, icy_metadata, input, concurrency, net, disk, runsLeft, fileExists, phase,
                    existing_entries, ip_cache, semValue, claimed, skipped,
                    prev, startFile >>

\* ffprobe ends.  Its JSON gives the five audio fields; an exception is
\* retried, and after the last attempt the fields stay unknown.
MediaReturn(i) ==
    /\ phase = "running"
    /\ task[i].at = "call" /\ task[i].probe = "media"
    /\ \E o \in net.media, j \in net.jitter :
        LET t == [task[i] EXCEPT !.got.media = o] IN
        IF o # "exc" THEN Step(i, ToIcy([t EXCEPT !.audio = AudioOf(o)]))
        ELSE IF Exhausted(t) THEN Step(i, GiveUp(t, ToIcy(t)))
        ELSE Step(i, Backoff(t, j))
    /\ UNCHANGED << response, icy_metadata, input, concurrency, net, disk, runsLeft, fileExists, phase,
                    existing_entries, ip_cache, geo_cache, semValue, claimed,
                    skipped,
                    prev, startFile >>

\* The tag request returns or raises; with its result, or after the last
\* failed attempt, process_radio returns its record and sem_task writes it.
IcyReturn(i) ==
    /\ phase = "running"
    /\ task[i].at = "call" /\ task[i].probe = "icy"
    /\ \E o \in net.icy, j \in net.jitter :
        LET t == [task[i] EXCEPT !.got.icy = o] IN
        IF o # "exc" THEN WriteRow(i, [t EXCEPT !.icy = IcyOf(o)])
        ELSE IF Exhausted(t) THEN WriteRow(i, t)
        ELSE Step(i, Backoff(t, j))
    /\ UNCHANGED << response, icy_metadata, input, concurrency, net, disk, runsLeft, fileExists, phase,
                    existing_entries, ip_cache, geo_cache, semValue, claimed,
                    skipped,
                    prev, startFile >>

\* Faulty variant of SlotBack: the slot is kept when the block is left.
SlotKept(v) == v

\* Semaphore.release at the end of "async with sem".
SlotBack(v) == v + 1

\* The pacing sleep ends, "async with sem" is left: the slot is free again.
PaceDone(i) ==
    /\ phase = "running"
    /\ task[i].at = "pace"
    /\ semValue' = SlotBack(semValue)
    /\ task' = [task EXCEPT ![i] = EndTask(task[i], "done")]
    /\ UNCHANGED << response, icy_metadata, input, concurrency, net, disk, runsLeft, fileExists, file, phase,
                    buf, existing_entries, ip_cache, geo_cache, claimed,
                    skipped, written,
                    prev, startFile >>

\* Faulty variant of Close: the last buffered line is cut after two cells.
CloseTorn(f, b) ==
    IF b = << >> THEN f
    ELSE f \o SubSeq(b, 1, Len(b) - 1) \o << SubSeq(b[Len(b)], 1, 2) >>

\* Faulty variant of Close: the store is rewritten from the buffer (mode "w").
CloseRewrite(f, b) == b

\* outfile.close(): what the buffer holds goes to disk.
Close(f, b) == f \o b

\* The process ends: its memory (the ledger, the caches, the semaphore,
\* the buffer) is gone.
ProcessExit ==
    /\ buf' = << >>
    /\ existing_entries' = {}
    /\ ip_cache' = {}
    /\ geo_cache' = {}
    /\ semValue' = 0

\* asyncio.gather returns when every task has: the session is closed, the
\* finally clause closes outfile.
Finish ==
    /\ phase = "running"
    /\ \A i \in Tasks : task[i].at = "done"
    /\ file' = Close(file, buf)
    /\ phase' = "finished"
    /\ ProcessExit
    /\ UNCHANGED << response, icy_metadata, input, concurrency, net, disk, runsLeft, fileExists, task,
                    claimed, skipped, written,
                    prev, startFile >>

\* Ctrl-C: asyncio.run cancels the main task, gather cancels every
\* sem_task at its await, and the finally clause closes outfile.
Interrupt ==
    /\ phase = "running"
    /\ file' = Close(file, buf)
    /\ task' = [i \in Tasks |-> GoneTask]
    /\ phase' = "interrupted"
    /\ ProcessExit
    /\ UNCHANGED << response, icy_metadata, input, concurrency, net, disk, runsLeft, fileExists, claimed,
                    skipped, written,
                    prev, startFile >>

\* The process is killed (SIGKILL, SIGTERM, power): no finally clause
\* runs, and what the buffer holds is lost.
Crash ==
    /\ phase = "running"
    /\ task' = [i \in Tasks |-> GoneTask]
    /\ phase' = "crashed"
    /\ ProcessExit
    /\ UNCHANGED << response, icy_metadata, input, concurrency, net, disk, runsLeft, fileExists, file,
                    claimed, skipped, written,
                    prev, startFile >>

\* process_csv_async when a file cannot be opened.  open(output_file)
\* raises before anything is written.  open(input_file) raises inside the
\* try block, after outfile was opened (and so created) and the header
\* written to an empty store: the finally clause closes outfile.  Either
\* way the exception leaves asyncio.run, which __main__ does not catch: no
\* task is created.
StartFail ==
    /\ phase # "running"
    /\ runsLeft > 0
    /\ ~CanStart(disk)
    /\ runsLeft' = runsLeft - 1
    /\ IF disk = "no_input"
       THEN /\ fileExists' = TRUE
            /\ file' = Close(file, IF StoreEmpty(file) THEN << Header >>
                                                       ELSE << >>)
       ELSE UNCHANGED << fileExists, file >>
    /\ task' = [i \in Tasks |-> GoneTask]
    /\ claimed' = {}
    /\ skipped' = {}
    /\ written' = [i \in Tasks |-> << >>]
    /\ prev' = phase
    /\ startFile' = file
    /\ phase' = "failed"
    /\ ProcessExit
    /\ UNCHANGED << response, icy_metadata, input, concurrency, net, disk >>

Next ==
    \/ StartRun
    \/ StartFail
    \/ \E i \in Tasks : TaskStart(i)
    \/ \E i \in Tasks : LiveReturn(i)
    \/ \E i \in Tasks : RetryWake(i)
    \/ \E i \in Tasks : GeoReturn(i)
    \/ \E i \in Tasks : ReverseReturn(i)
    \/ \E i \in Tasks : MediaReturn(i)
    \/ \E i \in Tasks : IcyReturn(i)
    \/ \E i \in Tasks : PaceDone(i)
    \/ Finish
    \/ Interrupt
    \/ Crash

\* The pool: one process run over up to MaxStations rows in a quiet world.
Init == InitWith(InputsUpTo(MaxStations), CalmNet, 1)
Spec == Init /\ [][Next]_vars

\* Restarts: up to MaxRuns process runs against the same output store.
InitRuns ==
    /\ InitWith(InputsUpTo(MaxRunStations), StillNet, MaxRuns)
    /\ concurrency = Len(input)
SpecRuns == InitRuns /\ [][Next]_vars

\* One station at a time against a world where every call may fail.
InitSolo ==
    /\ InitWith(InputsUpTo(MaxSoloStations), FullNet, 1)
    /\ concurrency = 1
SpecSolo == InitSolo /\ [][Next]_vars

\* Stations of one server against the geolocation services.
InitGeo == InitWith(InputsUpTo(MaxGeoStations), GeoNet, 1)
SpecGeo == InitGeo /\ [][Next]_vars

\* Stations of one server whose geolocation lacks a component.
InitVoid == InitWith(InputsUpTo(MaxVoidStations), VoidNet, 1)
SpecVoid == InitVoid /\ [][Next]_vars

\* The steps of the event loop: a task that can run does run, and every
\* external call returns or fails.  Interrupt and Crash come from outside
\* and need not happen.
Progress ==
    \/ StartRun
    \/ \E i \in Tasks : TaskStart(i)
    \/ \E i \in Tasks : LiveReturn(i)
    \/ \E i \in Tasks : RetryWake(i)
    \/ \E i \in Tasks : GeoReturn(i)
    \/ \E i \in Tasks : ReverseReturn(i)
    \/ \E i \in Tasks : MediaReturn(i)
    \/ \E i \in Tasks : IcyReturn(i)
    \/ \E i \in Tasks : PaceDone(i)
    \/ Finish
InitFair ==
    /\ InitWith(InputsUpTo(MaxFairStations), FailNet, 1)
    /\ concurrency = 1
FairSpec == InitFair /\ [][Next]_vars /\ WF_vars(Progress)

\* Stations that wait for the one slot, under the same fairness: the
\* liveness check may fail and be retried, the other calls answer.  The
\* input rows are whole, and two rows may be the same station.
QueueInputs(n) ==
    UNION { [1..k -> { Station("A", "u1"), Station("B", "u1") }] : k \in 1..n }
InitQueue ==
    /\ InitWith(QueueInputs(MaxQueueStations), QueueNet, 1)
    /\ concurrency = 1
FairQueue == InitQueue /\ [][Next]_vars /\ WF_vars(Progress)

\* One station at a time against the retry policy, with its jitter.
InitRetry ==
    /\ InitWith(InputsUpTo(MaxRetryStations), RetryNet, 1)
    /\ concurrency = 1
SpecRetry == InitRetry /\ [][Next]_vars


\* Map_test.py: get_icy_metadata is called on a response and returns.
ProbeTags ==
    /\ icy_metadata = << >>
    /\ response \in Responses
    /\ icy_metadata' = get_icy_metadata(response)
    /\ UNCHANGED << response, input, concurrency, net, disk, runsLeft,
                    fileExists, file, phase, buf, existing_entries, ip_cache,
                    geo_cache, semValue, task, claimed, skipped, written,
                    prev, startFile >>

\* The tag probe of Map_test.py alone, on every response of Responses; no
\* run of CheckURL.py is started.
InitMapTest ==
    /\ InitRun({ << Station("A", "u1") >> }, StillNet, 0)
    /\ disk = "ok"
    /\ response \in Responses
    /\ icy_metadata = << >>
NextMapTest == ProbeTags
SpecMapTest == InitMapTest /\ [][NextMapTest]_vars

\* ------------------------------------------------------------- the claims
\* The (name, url) cells of a line of the store, and those of the line the
\* writer writes for an input row.
LinePair(line) == << line[1], line[2] >>
CsvKey(row) == << CsvField(Key(row)[1]), CsvField(Key(row)[2]) >>

\* The number of lines of f that carry the pair.
RowsFor(f, pair) == Cardinality({ k \in 1..Len(f) : LinePair(f[k]) = pair })

\* The input rows that carry the same (name, url) pair as row i.
Twins(i) == { j \in Tasks : Key(input[j]) = Key(input[i]) }

\* C1: when the input holds the same (name, url) pair more than once, at
\* most one of its tasks claims the pair and at most one line is written
\* for it, under every interleaving; a task that finds the pair claimed
\* calls no probe and writes nothing; and when the run has finished,
\* exactly one task has claimed it and exactly one line is in the store.
C1_OneClaimPerPair ==
    \A i \in Tasks :
        Cardinality(Twins(i)) >= 2 =>
            /\ Cardinality(Twins(i) \cap claimed) <= 1
            /\ RowsFor(file \o buf, CsvKey(input[i])) <= 1
            /\ \A j \in Twins(i) \cap skipped :
                   task[j].calls = {} /\ written[j] = << >>
            /\ phase = "finished" =>
                   /\ Cardinality(Twins(i) \cap claimed) = 1
                   /\ Twins(i) \subseteq claimed \cup skipped
                   /\ RowsFor(file, CsvKey(input[i])) = 1

\* Two tasks of the same pair hold a slot at the same time: one has
\* claimed the pair and is in a probe, the other was turned away.
C1_Witness ==
    \E i, j \in Tasks :
        /\ i # j /\ Key(input[i]) = Key(input[j])
        /\ i \in claimed /\ task[i].at = "call"
        /\ j \in skipped /\ task[j].at = "pace"


\* C2: however often the pipeline runs against the same input and store,
\* no two lines of the store carry the same (name, url) pair.
C2_NoDuplicatePairs ==
    \A k1, k2 \in 1..Len(file) :
        k1 # k2 => LinePair(file[k1]) # LinePair(file[k2])

\* Line l is on disk.
OnDisk(l) == \E k \in 1..Len(file) : file[k] = l

\* The line task i wrote is on disk, there and in the run once.
RowOnce(i) ==
    /\ Len(written[i]) = 1
    /\ OnDisk(written[i][1])
    /\ RowsFor(file, CsvKey(input[i])) = 1

\* C3: a run that is neither interrupted nor killed comes to its end, and
\* at its end every station that claimed its key during the run has
\* exactly one line in the store, whatever its probes answered.
C3_ClaimedGetsRow ==
    phase = "running"
        ~> \/ phase \in { "interrupted", "crashed" }
           \/ phase = "finished" /\ \A i \in claimed : RowOnce(i)

\* A finished run in which a claimed station was available and every
\* enrichment probe failed: its line is there, with unknown fields.
C3_Witness ==
    /\ phase = "finished"
    /\ \E i \in claimed :
        /\ RowOnce(i)
        /\ { "geo", "media", "icy" } \subseteq task[i].calls
        /\ written[i][1][3] = "1"
        /\ \A c \in 4..NumCols : written[i][1][c] = Unknown

\* C4: when the process is killed, the line of every station that had
\* completed before the kill is on disk.
C4_CompletedRowsSurviveKill ==
    phase = "crashed" =>
        \A i \in Tasks : written[i] # << >> => OnDisk(written[i][1])

\* Every line of f has the full column set.
WellFormed(f) == \A k \in 1..Len(f) : Len(f[k]) = NumCols

\* The number of copies of line l in f.
Copies(f, l) == Cardinality({ k \in 1..Len(f) : f[k] = l })

\* C5: in a run that follows a kill or an interrupt, the store holds at
\* every moment every line it held at the restart, and every line of the
\* store, at any time, has the full column set.
C5_RestartKeepsRows ==
    /\ WellFormed(file)
    /\ prev \in { "crashed", "interrupted" } =>
           \A k \in 1..Len(startFile) :
               Copies(startFile, startFile[k]) <= Copies(file, startFile[k])

\* A run killed after some of its lines had reached the disk, and a
\* restart that finished and added lines.
C5_Witness ==
    /\ prev = "crashed"
    /\ phase = "finished"
    /\ Len(startFile) >= 2
    /\ Len(file) > Len(startFile)

\* The tasks that hold a slot of the semaphore.
InFlight == { i \in Tasks : task[i].at \in { "call", "sleep", "pace" } }

\* C6: the number of stations in flight never exceeds the concurrency
\* limit.
C6_AtMostConcurrency ==
    /\ Cardinality(InFlight) <= concurrency
    /\ phase = "running" => semValue = concurrency - Cardinality(InFlight)

\* The limit is reached and a task waits for a slot.
C6_Witness ==
    /\ phase = "running"
    /\ Cardinality(InFlight) = concurrency
    /\ \E i \in Tasks : task[i].at = "sem"

\* C7: the record of a station whose liveness check ended unavailable (a
\* status other than 200, or an exception on the last attempt) has
\* availability "0" and every enrichment field unknown.
C7_UnavailableAllUnknown ==
    \A i \in Tasks :
        (task[i].live \in { "404", "exc" } /\ written[i] # << >>) =>
            /\ written[i][1][3] = "0"
            /\ \A c \in 4..NumCols : written[i][1][c] = Unknown

\* A station whose every liveness attempt raised has its record written.
C7_Witness ==
    \E i \in Tasks : task[i].live = "exc" /\ written[i] # << >>

\* The number of header lines in f.
HeaderCount(f) == Copies(f, Header)

\* C8: after every run, however it ended (finished, interrupted or
\* killed), the store holds exactly one header line.
C8_ExactlyOneHeader ==
    phase \in { "finished", "interrupted", "crashed" } => HeaderCount(file) = 1

\* What holds of the header whatever the runs: the store never holds more
\* than one header line, and a store that is not empty starts with it;
\* after a run that finished or was interrupted the store holds exactly
\* one; and a run writes the header only when it found the store empty.
HeaderAtMostOnce ==
    /\ HeaderCount(file \o buf) <= 1
    /\ Len(file) > 0 => file[1] = Header
    /\ phase \in { "finished", "interrupted" } => HeaderCount(file) = 1
    /\ phase = "running" => HeaderCount(file \o buf) = 1
    /\ HeaderCount(buf) > 0 => startFile = << >> /\ buf[1] = Header

\* A first run killed before anything reached the disk, then a run that
\* found the store empty, wrote the header and finished.
HeaderAfterKill ==
    /\ prev = "crashed"
    /\ startFile = << >>
    /\ phase = "finished"
    /\ HeaderCount(file) = 1
    /\ Len(file) >= 2

\* f is a prefix of g.
IsPrefix(f, g) == Len(f) <= Len(g) /\ SubSeq(g, 1, Len(f)) = f

\* C9: the store is append-only: no step changes or removes a line that
\* is on disk, and the lines a run found are a prefix of the store for as
\* long as the run lasts and after it.
C9_AppendOnly ==
    /\ [](IsPrefix(startFile, file))
    /\ [][IsPrefix(file, file')]_vars

\* A run that found lines in the store and has put more behind them.
C9_Witness ==
    /\ phase = "running"
    /\ Len(startFile) >= 2
    /\ Len(file) > Len(startFile)

\* The (name, url) cells of the lines the run found behind the header.
Loaded == { LinePair(startFile[k]) : k \in 2..Len(startFile) }

\* C10: from the first step of any task on, the ledger holds every pair
\* of the store the run found; a station whose pair the ledger held when
\* its task looked is skipped: it calls no probe and writes no line.
C10_LoadedThenSkipped ==
    /\ phase = "running" => Loaded \subseteq existing_entries
    /\ \A i \in Tasks :
           Key(input[i]) \in Loaded =>
               i \notin claimed /\ task[i].calls = {} /\ written[i] = << >>
    /\ \A i \in skipped : task[i].calls = {} /\ written[i] = << >>

\* A station of a line the run found in the store: its task has come and
\* gone, skipped.
C10_Witness ==
    \E i \in skipped : Key(input[i]) \in Loaded /\ task[i].at = "done"


\* The coordinates of station i: those of its record once it is written,
\* those its task holds before.
Coords(i) ==
    IF written[i] # << >> THEN << written[i][1][6], written[i][1][7] >>
    ELSE << task[i].latitude, task[i].longitude >>

\* C11: a station whose latitude or longitude is unknown never enters the
\* reverse geocoder: it neither calls the geocoding service nor looks the
\* pair up in the geocoder's cache, also when the unknown coordinate came
\* out of the geolocation cache.
C11_NoReverseWithoutCoords ==
    \A i \in Tasks :
        (Coords(i)[1] = Unknown \/ Coords(i)[2] = Unknown) =>
            /\ "rgeo" \notin task[i].calls
            /\ "rgeo_hit" \notin task[i].calls
            /\ "rgeo_bad" \notin task[i].calls
            /\ \A k \in 1..Len(task[i].order) : task[i].order[k] # "rgeo"
            /\ ~(task[i].at = "call" /\ task[i].probe = "rgeo")

\* A station served from the geolocation cache with an unknown longitude
\* has its record written, and the geocoder was not entered for it.
C11_Witness ==
    \E i \in Tasks :
        /\ "geo_hit" \in task[i].calls
        /\ "geo" \notin task[i].calls
        /\ written[i] # << >>
        /\ written[i][1][6] # Unknown
        /\ written[i][1][7] = Unknown
        /\ "rgeo" \notin task[i].calls


\* Task i enters get_server_info in this step: for the first time, right
\* after its address was resolved, or again, when the sleep of async_retry
\* ends.
LookupStep(i) ==
    \/ /\ task[i].at = "call" /\ task[i].probe = "live"
       /\ task'[i].got.dns \notin { "none", "exc" }
    \/ /\ task[i].at = "sleep" /\ task[i].probe = "geo"
       /\ task'[i] # task[i]
       /\ phase' = "running"

\* C12: a geolocation lookup of an address the cache holds sends no
\* request, returns the cached coordinates and leaves the cache as it was.
C12_CacheHitNoCall ==
    [][\A i \in Tasks :
          (LookupStep(i) /\ Has(ip_cache, task'[i].ip)) =>
              /\ ip_cache' = ip_cache
              /\ ~(task'[i].at = "call" /\ task'[i].probe = "geo")
              /\ task'[i].got.geo = "hit"
              /\ << task'[i].latitude, task'[i].longitude >>
                     = Get(ip_cache, task'[i].ip)]_vars

\* A station whose first request failed and whose retry found the address
\* in the cache, put there by the other station meanwhile.
C12_Witness ==
    \E i \in Tasks :
        /\ task[i].got.geo = "hit"
        /\ "geo" \in task[i].calls
        /\ task[i].ip # NoneV
        /\ Has(ip_cache, task[i].ip)
        /\ << task[i].latitude, task[i].longitude >> = Get(ip_cache, task[i].ip)


\* The places of the commas in the characters cs.
Commas(cs) == { k \in 1..Len(cs) : cs[k] = "," }

\* cs reads "lat,lon": one comma, something before it and something after.
WellFormedLoc(cs) ==
    /\ Cardinality(Commas(cs)) = 1
    /\ \E k \in Commas(cs) : 1 < k /\ k < Len(cs)

\* The part of cs before its comma, and the part after it.
BeforeComma(cs) == LET k == CHOOSE k \in Commas(cs) : TRUE
                   IN  Join(SubSeq(cs, 1, k - 1))
AfterComma(cs) == LET k == CHOOSE k \in Commas(cs) : TRUE
                  IN  Join(SubSeq(cs, k + 1, Len(cs)))

\* C13: a station whose geolocation request was answered with a
\* well-formed "lat,lon" has latitude = the part before the comma and
\* longitude = the part after it ("12.34" and "56.78" for "12.34,56.78"),
\* neither unknown, and it enters the reverse geocoder, with those two
\* values.
C13_LatLonThenReverse ==
    \A i \in Tasks : \A o \in net.geo :
        (task[i].got.geo = o /\ WellFormedLoc(LocText(o))) =>
            /\ Coords(i) = << BeforeComma(LocText(o)), AfterComma(LocText(o)) >>
            /\ Coords(i)[1] # Unknown /\ Coords(i)[2] # Unknown
            /\ o = "well" => Coords(i) = << "12.34", "56.78" >>
            /\ "rgeo" \in task[i].calls \/ "rgeo_hit" \in task[i].calls
            /\ task[i].got.rgeo = "none" =>
                   task[i].at = "call" /\ task[i].probe = "rgeo"

\* The request was answered "12.34,56.78" and the task is in the geocoder
\* call with latitude "12.34" and longitude "56.78".
C13_Witness ==
    \E i \in Tasks :
        /\ task[i].got.geo = "well"
        /\ task[i].at = "call" /\ task[i].probe = "rgeo"
        /\ task[i].latitude = "12.34" /\ task[i].longitude = "56.78"


\* C14: in every record written, every optional field (every column after
\* name and url) holds a value or the "unknown" sentinel, never an empty
\* cell.
C14_NoEmptyOptional ==
    \A i \in Tasks : \A k \in 1..Len(written[i]) : \A c \in 3..NumCols :
        written[i][k][c] # ""


\* The cells c of line l are all the "unknown" sentinel.
AllUnknown(l, cols) == \A c \in cols : l[c] = Unknown

\* C15: no failure of a probe leaves process_radio: a task is never ended
\* by an exception, every task that claimed its station and got past
\* process_radio has written one record, and in that record the fields of
\* every probe that failed (on its last attempt) are unknown.
C15_FailuresBecomeUnknown ==
    \A i \in Tasks :
        /\ task[i].at \in { "sem", "call", "sleep", "pace", "done", "gone" }
        /\ (i \in claimed /\ task[i].at \in { "pace", "done" }) =>
               Len(written[i]) = 1
        /\ written[i] # << >> =>
               LET l == written[i][1]
                   g == task[i].got
               IN  /\ task[i].live = "exc" => l[3] = "0" /\ AllUnknown(l, 4..NumCols)
                   /\ g.dns = "exc" => AllUnknown(l, 4..7)
                   /\ g.geo = "exc" => AllUnknown(l, 4..7)
                   /\ g.rgeo = "exc" => AllUnknown(l, 4..5)
                   /\ g.media = "exc" => AllUnknown(l, 8..12)
                   /\ g.icy = "exc" => AllUnknown(l, 13..NumCols)

\* The geocoder, ffprobe and the tag request all failed for a station that
\* had coordinates, and its record is written.
C15_Witness ==
    \E i \in Tasks :
        /\ written[i] # << >>
        /\ task[i].got.rgeo = "exc"
        /\ task[i].got.media = "exc"
        /\ task[i].got.icy = "exc"
        /\ written[i][1][6] = "12.34"


\* The lines this run added to the store: what follows the lines the run
\* found and the header it wrote into an empty store.
AddedFrom == Len(startFile) + (IF startFile = << >> THEN 1 ELSE 0)

\* Every line this run added to the store is, whole, the line one task
\* wrote, and every line a task wrote is in the store.
OnlyWholeRows ==
    /\ Len(file) >= AddedFrom
    /\ SubSeq(file, 1, Len(startFile)) = startFile
    /\ \A k \in (AddedFrom + 1)..Len(file) :
           /\ Len(file[k]) = NumCols
           /\ \E i \in Tasks : written[i] = << file[k] >>
    /\ \A i \in Tasks :
           written[i] # << >> =>
               \E k \in (AddedFrom + 1)..Len(file) : file[k] = written[i][1]
    /\ \A k, m \in (AddedFrom + 1)..Len(file) :
           (k # m /\ file[k] = file[m]) =>
               \E i, j \in Tasks :
                   i # j /\ written[i] = << file[k] >> /\ written[j] = written[i]

\* C16: once the process is interrupted no task is left to claim or start
\* a station (those in flight are gone), the store holds the lines the run
\* found and whole rows only, one per row written, and nothing of the run
\* changes afterwards: the next step, if any, is a new process start.
C16_InterruptStops ==
    /\ [](phase = "interrupted" =>
              /\ \A i \in Tasks : task[i].at = "gone"
              /\ buf = << >>
              /\ OnlyWholeRows)
    /\ [][phase = "interrupted" =>
              /\ phase' \in { "running", "failed" }
              /\ runsLeft' = runsLeft - 1]_vars

\* The interrupt came while one station was in flight and one row was
\* written: the row is in the store, the other station is abandoned.
C16_Witness ==
    /\ phase = "interrupted"
    /\ \E i, j \in Tasks :
           /\ i # j
           /\ written[i] # << >>
           /\ j \in claimed
           /\ written[j] = << >>
           /\ file # << >>
           /\ file[Len(file)] = written[i][1]


\* C17: when the input or the output file cannot be opened the run never
\* starts: the process ends with the error, no station is claimed, no probe
\* is made and no station row is written (an empty store gets, at most,
\* the header).
C17_OpenFailureStopsAll ==
    /\ disk # "ok" => phase \in { "idle", "failed" }
    /\ phase = "failed" =>
           /\ disk # "ok"
           /\ claimed = {} /\ skipped = {}
           /\ \A i \in Tasks :
                  /\ task[i].at = "gone"
                  /\ task[i].calls = {}
                  /\ task[i].order = << >>
                  /\ written[i] = << >>
           /\ file \in { startFile, startFile \o << Header >> }
           /\ disk = "no_output" => file = startFile
           /\ buf = << >>

\* The input file could not be opened and the store was empty: the run
\* failed and left the header alone in the store.
C17_Witness ==
    /\ phase = "failed"
    /\ disk = "no_input"
    /\ input # << >>
    /\ file = << Header >>


\* The places where a sem_task is suspended (or has not started, or is
\* over): every state of the model shows each task at one of them.
Suspended(t) == t.at \in { "sem", "call", "sleep", "pace", "done" }

\* C18: a task that is suspended (waiting for its slot, in a network,
\* subprocess or offloaded call, or asleep) holds none of entry_lock,
\* ip_cache_lock, geo_cache_lock and csv_lock.
C18_NoLockWhileSuspended ==
    \A i \in Tasks : Suspended(task[i]) => task[i].locks = {}

\* One task is in the geocoder's offloaded call, having been through
\* entry_lock, ip_cache_lock and geo_cache_lock, while another sleeps after
\* writing its row under csv_lock.
C18_Witness ==
    \E i, j \in Tasks :
        /\ task[i].at = "call" /\ task[i].probe = "rgeo"
        /\ task[i].locks = {}
        /\ task[j].at = "pace" /\ written[j] # << >>
        /\ task[j].locks = {}


\* The step in which task i claims its station: from waiting for its slot
\* to the first attempt of the liveness check, nothing else done yet.
ClaimStep(i) ==
    /\ task[i].at = "sem"
    /\ task'[i].at = "call"
    /\ task'[i].probe = "live"
    /\ task'[i].attempt = 1
    /\ task'[i].order = << "live" >>
    /\ task'[i].locks = {}

\* C19: within a run the ledger changes only in the step in which a task
\* claims its station: the key was not in the ledger, it is the one key
\* added, the step ends in the first attempt of the liveness check with
\* entry_lock released, and no other step (a row written, a task ended)
\* touches the ledger.  Every station that was claimed or has a probe
\* started has its key in the ledger.
C19_InsertedOnceAtClaim ==
    /\ [](phase = "running" =>
              \A i \in Tasks :
                  (i \in claimed \/ task[i].order # << >>) =>
                      /\ i \in claimed
                      /\ Key(input[i]) \in existing_entries)
    /\ [][(phase = "running" /\ phase' = "running") =>
              /\ existing_entries' # existing_entries =>
                     \E i \in Tasks :
                         /\ ClaimStep(i)
                         /\ Key(input[i]) \notin existing_entries
                         /\ existing_entries' =
                                existing_entries \cup { Key(input[i]) }
              /\ \A i \in Tasks :
                     (i \in claimed' /\ i \notin claimed) =>
                         /\ ClaimStep(i)
                         /\ Key(input[i]) \notin existing_entries
                         /\ Key(input[i]) \in existing_entries']_vars

\* Two stations are claimed, both keys are in the ledger, and the second
\* is in the first attempt of its liveness check while the first has its
\* row written.
C19_Witness ==
    /\ phase = "running"
    /\ \E i, j \in Tasks :
           /\ i # j
           /\ { i, j } \subseteq claimed
           /\ { Key(input[i]), Key(input[j]) } \subseteq existing_entries
           /\ Key(input[i]) # Key(input[j])
           /\ written[i] # << >>
           /\ task[j].at = "call" /\ task[j].probe = "live"
           /\ task[j].attempt = 1


\* The place of a probe in process_radio, lines 223-239.
Rank(p) ==
    CASE p = "live"  -> 1
      [] p = "dns"   -> 2
      [] p = "geo"   -> 3
      [] p = "rgeo"  -> 4
      [] p = "media" -> 5
      [] p = "icy"   -> 6

\* C20: the probes a station has started are in the order liveness check,
\* address resolution, geolocation lookup, reverse geocode, media probe,
\* tag probe, each at most once; a task that is in a call or sleeps
\* between two attempts is in the probe it started last, so no later probe
\* has started; and a step only adds later probes to those started.
C20_ProbeOrder ==
    /\ [](\A i \in Tasks :
              LET o == task[i].order IN
              /\ \A k \in 1..(Len(o) - 1) : Rank(o[k]) < Rank(o[k + 1])
              /\ o # << >> => o[1] = "live"
              /\ task[i].at \in { "call", "sleep" } =>
                     /\ o # << >>
                     /\ task[i].probe = o[Len(o)])
    /\ [][phase = "running" /\ phase' = "running" =>
              \A i \in Tasks : IsPrefix(task[i].order, task'[i].order)]_vars

\* Two stations at once: one is in its tag probe after all five probes
\* before it, the other is still in its geolocation lookup.
C20_Witness ==
    \E i, j \in Tasks :
        /\ task[i].at = "call" /\ task[i].probe = "icy"
        /\ task[i].order = << "live", "dns", "geo", "rgeo", "media", "icy" >>
        /\ task[j].at = "call" /\ task[j].probe = "geo"
        /\ task[j].order = << "live", "dns", "geo" >>


\* Task t is in probe p: in a call of it, or asleep between two attempts.
InProbe(t, p) == t.at \in { "call", "sleep" } /\ t.probe = p

\* C21: an available station gets its media probe as soon as the location
\* steps are over, however they ended, and its tag probe as soon as the
\* media probe is over, however it ended; the record of an available
\* station is written after both were made.
C21_MediaAndTagsAlwaysTried ==
    \A i \in Tasks :
        /\ ("dns" \in task[i].calls
               /\ ~InProbe(task[i], "geo") /\ ~InProbe(task[i], "rgeo")) =>
               "media" \in task[i].calls
        /\ ("media" \in task[i].calls /\ ~InProbe(task[i], "media")) =>
               /\ task[i].got.media # "none"
               /\ "icy" \in task[i].calls
        /\ (task[i].at \in { "pace", "done" }
               /\ written[i] # << >> /\ written[i][1][3] = "1") =>
               /\ { "media", "icy" } \subseteq task[i].calls
               /\ task[i].got.media # "none"
               /\ task[i].got.icy # "none"

\* The geolocation lookup failed on every attempt, the media probe too, and
\* the tag request was made and answered: the record is written.
C21_Witness ==
    \E i \in Tasks :
        /\ written[i] # << >>
        /\ task[i].got.geo = "exc"
        /\ task[i].got.media = "exc"
        /\ task[i].got.icy = "tags"
        /\ written[i][1][13] = "128"


\* C22: a station whose liveness check ended as unavailable (a status
\* other than 200, or a failure on the last attempt) has had no call but the
\* liveness check: no address resolution, no geolocation lookup (request
\* or cache), no reverse geocode, no media probe, no tag probe; and a step
\* that changes a cache is the step of a task whose station is available.
C22_UnavailableNoEnrichment ==
    /\ [](\A i \in Tasks :
              task[i].live \in { "206", "404", "exc" } =>
                  /\ task[i].calls = { "live" }
                  /\ task[i].order = << "live" >>
                  /\ task[i].got = NoAnswers)
    /\ [][(phase = "running" /\ phase' = "running"
              /\ (ip_cache' # ip_cache \/ geo_cache' # geo_cache)) =>
              \E i \in Tasks :
                  /\ task'[i] # task[i]
                  /\ task[i].live = "200"
                  /\ \A j \in Tasks \ {i} : task'[j] = task[j]]_vars

\* The liveness check failed on each of its attempts: the record says "0"
\* and only the liveness check was called.
C22_Witness ==
    \E i \in Tasks :
        /\ task[i].at = "pace"
        /\ task[i].live = "exc"
        /\ Key(input[i])[2] # NoneV
        /\ written[i] # << >>
        /\ written[i][1][3] = "0"
        /\ task[i].calls = { "live" }


\* The record of task i: the line it wrote or, while it is in
\* process_radio, the line its locals would make.
Cells(i) ==
    IF written[i] # << >> THEN written[i][1]
    ELSE CsvLine(Record(input[i], task[i]))

\* The columns a probe fills.
ColsOf(p) ==
    CASE p = "live"  -> 4..NumCols
      [] p = "geo"   -> 4..7
      [] p = "media" -> 8..12
      [] p = "icy"   -> 13..NumCols

\* How the last attempt of probe p of task t ended.
LastOf(t, p) == IF p = "live" THEN t.live ELSE t.got[p]

\* C23: a probe under the retry policy whose last attempt failed is left
\* only after its last allowed attempt, the task then goes on (to its next
\* probe or to its record), and from then on the probe's fields are
\* "unknown" in the station's record; the task is never ended by the
\* failure.
C23_NoResultIsUnknown ==
    /\ [](\A i \in Tasks : \A p \in { "live", "geo", "media", "icy" } :
              (task[i].at # "gone" /\ LastOf(task[i], p) = "exc"
                  /\ ~InProbe(task[i], p)) =>
                  /\ task[i].at \in { "call", "sleep", "pace", "done" }
                  /\ \A c \in ColsOf(p) : Cells(i)[c] = Unknown
                  /\ p = "live" => Cells(i)[3] = "0")
    /\ [][\A i \in Tasks : \A p \in { "live", "geo", "media", "icy" } :
              (phase' = "running" /\ InProbe(task[i], p)
                  /\ ~InProbe(task'[i], p)
                  /\ LastOf(task'[i], p) = "exc") =>
                  /\ task[i].at = "call"
                  /\ task[i].attempt = Retries(p)
                  /\ \/ task'[i].at = "call"
                     \/ task'[i].at = "pace" /\ Len(written'[i]) = 1]_vars

\* The geolocation lookup and the media probe both failed on every
\* attempt, and the task is in its tag probe.
C23_Witness ==
    \E i \in Tasks :
        /\ task[i].got.geo = "exc"
        /\ task[i].got.media = "exc"
        /\ task[i].at = "call" /\ task[i].probe = "icy"
        /\ task[i].latitude = Unknown
        /\ task[i].audio = UnknownAudio


\* The probes process_radio calls through async_retry.
Retried == { "live", "geo", "media", "icy" }

\* What the columns of probe p hold when its attempt answered o.
Answer(p, o) ==
    CASE p = "live"  -> << >>
      [] p = "geo"   -> LatLong(LocParts(o))
      [] p = "media" -> AudioOf(o)
      [] p = "icy"   -> IcyOf(o)

\* The columns of probe p in which its own answer is written.
AnswerCols(p) ==
    CASE p = "live"  -> << >>
      [] p = "geo"   -> << 6, 7 >>
      [] p = "media" -> << 8, 9, 10, 11, 12 >>
      [] p = "icy"   -> << 13, 14, 15, 16, 17 >>

\* C24: a probe under the retry policy is in its attempt 1..retries (3 for
\* the liveness check and the geolocation lookup, 2 for the media and the
\* tag probe); the attempt number goes up by one, and only after a sleep
\* that followed a failed attempt which was not the last; an attempt that
\* returns without failure ends the probe, and what it returned is what
\* the station's record holds.
C24_BoundedAttempts ==
    /\ [](\A i \in Tasks : \A p \in Retried :
              InProbe(task[i], p) =>
                  task[i].attempt \in 1..Retries(p))
    /\ [][\A i \in Tasks : \A p \in Retried :
              (phase' = "running" /\ InProbe(task[i], p)
                  /\ task'[i] # task[i]) =>
                  /\ (InProbe(task'[i], p)
                         /\ task'[i].attempt # task[i].attempt) =>
                         /\ task[i].at = "sleep"
                         /\ task'[i].at = "call"
                         /\ task'[i].attempt = task[i].attempt + 1
                  /\ task'[i].at = "sleep" =>
                         /\ task[i].at = "call"
                         /\ InProbe(task'[i], p)
                         /\ LastOf(task'[i], p) = "exc"
                         /\ task'[i].attempt = task[i].attempt
                         /\ task[i].attempt < Retries(p)
                  /\ (task[i].at = "call"
                         /\ LastOf(task'[i], p) # "exc") =>
                         /\ ~InProbe(task'[i], p)
                         /\ \A k \in 1..Len(AnswerCols(p)) :
                                Cells(i)'[AnswerCols(p)[k]] =
                                    CsvField(CleanText(
                                        Answer(p, LastOf(task'[i], p))[k]))
                         /\ p = "live" =>
                                Cells(i)'[3] =
                                    (IF task'[i].live = "200" THEN "1"
                                                              ELSE "0")]_vars

\* The geolocation lookup failed three times and the media probe is in
\* its second and last attempt.
C24_Witness ==
    \E i \in Tasks :
        /\ task[i].got.geo = "exc"
        /\ task[i].at = "call" /\ task[i].probe = "media"
        /\ task[i].attempt = MediaRetries


\* 2 to the power n.
RECURSIVE Pow2(_)
Pow2(n) == IF n = 0 THEN 1 ELSE 2 * Pow2(n - 1)

\* C25: the sleep after the k-th failed attempt lasts base_delay * 2^(k-1)
\* plus a jitter in [0, 0.1 s); each sleep of a probe is longer than the
\* one before it; and a sleep comes only after a failed attempt that is
\* not the last: the last failed attempt is followed by no sleep.
C25_BackoffDelays ==
    /\ [](\A i \in Tasks :
              task[i].at = "sleep" =>
                  /\ task[i].attempt \in 1..(Retries(task[i].probe) - 1)
                  /\ \E jit \in 0..(JitterBound - 1) :
                         task[i].delay =
                             BaseDelay * Pow2(task[i].attempt - 1) + jit)
    /\ [][\A i \in Tasks :
              (phase' = "running" /\ task'[i] # task[i]) =>
                  /\ (task'[i].at = "sleep") =>
                         /\ task[i].at = "call"
                         /\ task[i].attempt = 1 => task[i].delay = 0
                         /\ task'[i].delay > task[i].delay
                  /\ (task[i].at = "call" /\ task[i].probe \in Retried
                         /\ task[i].attempt = Retries(task[i].probe)) =>
                         task'[i].at # "sleep"]_vars

\* The second sleep of the geolocation lookup with the largest jitter.
C25_Witness ==
    \E i \in Tasks :
        /\ task[i].at = "sleep" /\ task[i].probe = "geo"
        /\ task[i].attempt = 2
        /\ task[i].delay = 2099


\* The response statuses of the 2xx class among those the world gives.
TwoHundredClass == { "200", "206" }

\* C26: a station is recorded as available exactly when its liveness
\* check ended with a status of the 2xx class, and as unavailable for
\* every other outcome (another status, a failure of the request).
C26_TwoHundredClassAvailable ==
    \A i \in Tasks :
        (task[i].at \in { "pace", "done" } /\ written[i] # << >>) =>
            (written[i][1][3] = "1" <=> task[i].live \in TwoHundredClass)


\* C27: a media-probe attempt that is not the last and ends with a
\* non-zero exit status or with malformed output is a failed attempt: the
\* task sleeps and makes another attempt.
C27_FailedExitIsRetried ==
    [][\A i \in Tasks :
           (phase' = "running"
               /\ task[i].at = "call" /\ task[i].probe = "media"
               /\ task'[i] # task[i]
               /\ task'[i].got.media \in { "nonzero", "exc" }
               /\ task[i].attempt < MediaRetries) =>
               /\ task'[i].at = "sleep"
               /\ task'[i].probe = "media"]_vars


\* C28: a geolocation attempt that fails changes neither cache; a station
\* whose geolocation lookup failed on its last attempt has latitude,
\* longitude, country and country_code "unknown", gets no reverse geocode,
\* and goes on to its media probe and to its one written record.
C28_FailedGeolocationNotFatal ==
    /\ [](\A i \in Tasks :
              (task[i].at # "gone" /\ task[i].got.geo = "exc"
                  /\ ~InProbe(task[i], "geo")) =>
                  /\ \A c \in 4..7 : Cells(i)[c] = Unknown
                  /\ "media" \in task[i].calls
                  /\ "rgeo" \notin task[i].calls
                  /\ "rgeo_hit" \notin task[i].calls
                  /\ task[i].at \in { "call", "sleep", "pace", "done" }
                  /\ task[i].at \in { "pace", "done" } =>
                         Len(written[i]) = 1)
    /\ [][\A i \in Tasks :
              (phase' = "running" /\ task[i].at = "call"
                  /\ task[i].probe = "geo" /\ task'[i] # task[i]
                  /\ task'[i].got.geo = "exc") =>
                  /\ ip_cache' = ip_cache
                  /\ geo_cache' = geo_cache]_vars

\* The lookup failed three times, nothing is cached for the address, and
\* the station's record is written with the other probes' answers.
C28_Witness ==
    \E i \in Tasks :
        /\ task[i].got.geo = "exc"
        /\ written[i] # << >>
        /\ written[i][1][8] = "mp3"
        /\ written[i][1][6] = Unknown
        /\ ip_cache = {}


\* C29: reverse_geocode always returns: the one geocoder call is never
\* made again and is followed by the media probe; when the call failed,
\* when it found no location, and when the coordinates are no numbers
\* (the geocoder is then not called), country and country_code are
\* "unknown" and geo_cache is as it was.
C29_ReverseNeverRaises ==
    /\ [](\A i \in Tasks :
              /\ (task[i].at # "gone"
                     /\ task[i].got.rgeo \in { "exc", "nowhere", "badfloat" }) =>
                     /\ task[i].at \in { "call", "sleep", "pace", "done" }
                     /\ ~InProbe(task[i], "rgeo")
                     /\ "media" \in task[i].calls
                     /\ Cells(i)[4] = Unknown /\ Cells(i)[5] = Unknown
              /\ (task[i].at # "gone" /\ Cells(i)[6] = "a") =>
                     /\ "rgeo" \notin task[i].calls
                     /\ ~InProbe(task[i], "rgeo")
                     /\ Cells(i)[4] = Unknown /\ Cells(i)[5] = Unknown
              /\ InProbe(task[i], "rgeo") =>
                     task[i].at = "call" /\ task[i].attempt = 1)
    /\ [][\A i \in Tasks :
              (phase' = "running" /\ InProbe(task[i], "rgeo")
                  /\ task'[i] # task[i]) =>
                  /\ task'[i].at = "call" /\ task'[i].probe = "media"
                  /\ task'[i].got.rgeo # "found" =>
                         /\ geo_cache' = geo_cache
                         /\ task'[i].country = Unknown
                         /\ task'[i].country_code = Unknown]_vars

\* The geocoder call failed, and the station is in its media probe
\* without a country.
C29_Witness ==
    \E i \in Tasks :
        /\ task[i].got.rgeo = "exc"
        /\ task[i].at = "call" /\ task[i].probe = "media"
        /\ task[i].latitude = "12.34"
        /\ task[i].country = Unknown

\* The coordinates are no numbers: no geocoder call, no country.
C29_WitnessText ==
    \E i \in Tasks :
        /\ task[i].got.rgeo = "badfloat"
        /\ task[i].latitude = "a" /\ task[i].longitude = "b"
        /\ task[i].at = "call" /\ task[i].probe = "media"


\* C30: the address of a station is resolved at most once in a run, in
\* the step that follows the 200 of its liveness check, and the answer is
\* final; when the resolution failed there is no geolocation lookup
\* (request or cache) and no reverse geocode for the station, its
\* latitude, longitude, country and country_code are "unknown", and the
\* media probe follows at once.
C30_ResolutionOnceNoRetry ==
    /\ [](\A i \in Tasks :
              /\ Cardinality({ k \in 1..Len(task[i].order) :
                                   task[i].order[k] = "dns" }) <= 1
              /\ (task[i].at # "gone" /\ task[i].got.dns = "exc") =>
                     /\ task[i].calls \cap { "geo", "geo_hit", "rgeo",
                                             "rgeo_hit", "rgeo_bad" } = {}
                     /\ task[i].got.geo = "none"
                     /\ task[i].got.rgeo = "none"
                     /\ \A c \in 4..7 : Cells(i)[c] = Unknown
                     /\ "media" \in task[i].calls)
    /\ [][\A i \in Tasks :
              (phase = "running" /\ phase' = "running"
                  /\ task'[i].got.dns # task[i].got.dns) =>
                  /\ task[i].got.dns = "none"
                  /\ task[i].at = "call" /\ task[i].probe = "live"
                  /\ task'[i].live = "200"
                  /\ task'[i].got.dns = "exc" =>
                         task'[i].at = "call" /\ task'[i].probe = "media"]_vars

\* The resolution failed: the record of the available station is written
\* with the media probe's answer and no location.
C30_Witness ==
    \E i \in Tasks :
        /\ task[i].got.dns = "exc"
        /\ written[i] # << >>
        /\ written[i][1][3] = "1"
        /\ written[i][1][6] = Unknown
        /\ written[i][1][8] = "mp3"


\* --------------------------------------------------------------------- C31
\* A block holds a whole title: "StreamTitle='" and, after it, "';".
WholeTitle(cs) ==
    \E k \in 1..Len(cs), m \in 1..Len(cs) :
        /\ OccursAt(cs, TitleOpen, k)
        /\ OccursAt(cs, TitleClose, m)
        /\ m >= k + Len(TitleOpen)

\* The response was received and read, and its metadata block is absent
\* (no icy-metaint header, or a block of length 0) or malformed (no whole
\* title in it).
BlockAbsentOrMalformed ==
    /\ response.status = "ok"
    /\ \/ ~response.hasMetaint
       \/ /\ response.read = "ok"
          /\ IntOk(response.metaint)
          /\ ~WholeTitle(response.raw)

\* C31: in the tag probe that parses the in-band metadata block
\* (get_icy_metadata of Map_test.py) a malformed or absent block does not
\* abort the probe: the probe returns the tag values read from the response
\* headers, with the title "?".
C31_BadBlockKeepsTags ==
    (icy_metadata # << >> /\ BlockAbsentOrMalformed) =>
        icy_metadata = IcyOf(response.headers) \o << Unknown >>


\* --------------------------------------------------------------------- C32
\* The run is over: it finished, or it was ended from outside.
RunOver == phase \in { "finished", "interrupted", "crashed" }

\* The tasks inside "async with sem".
Holders == { i \in Tasks : task[i].at \notin { "sem", "done", "gone" } }

\* C32: when every external call returns or fails, a run over a finite
\* input comes to its end and every station task comes to its end; a task
\* leaves the wait for a slot only by taking a free one, and ends (a
\* duplicate too) only by giving its slot back; the free slots are those
\* no task inside the block holds, and a task that has ended holds no lock.
C32_RunTerminates ==
    /\ (phase = "running") ~> RunOver
    /\ \A i \in 1..MaxQueueStations :
           (i \in Tasks /\ phase = "running" /\ task[i].at # "done")
               ~> (RunOver \/ (i \in Tasks /\ task[i].at = "done"))
    /\ [][\A i \in Tasks :
              /\ (phase = "running" /\ phase' = "running"
                      /\ task[i].at # "done" /\ task'[i].at = "done") =>
                     (i \in Holders /\ semValue' = semValue + 1)
              /\ (phase = "running" /\ task[i].at = "sem"
                      /\ task'[i].at # "sem" /\ phase' = "running") =>
                     (semValue > 0 /\ semValue' = semValue - 1)]_vars
    /\ [](phase = "running" =>
              /\ semValue = concurrency - Cardinality(Holders)
              /\ \A i \in Tasks : task[i].at = "done" => task[i].locks = {})

\* Two stations with the same key and one slot, every task has ended: the
\* second waited for the slot, was skipped as a duplicate and gave the
\* slot back; the first was written before.
C32_Witness ==
    /\ phase = "running"
    /\ Len(input) = 2
    /\ concurrency = 1
    /\ semValue = 1
    /\ skipped # {}
    /\ \A i \in Tasks : task[i].at = "done"
    /\ \E i \in claimed : written[i] # << >>


\* --------------------------------------------------------------------- C33
\* The run before this one was ended from outside, and the store this run
\* found has no line for station i: so it is for every station the ended
\* run had claimed without its line reaching the store.
NoLineFound(i) ==
    /\ prev \in { "crashed", "interrupted" }
    /\ RowsFor(startFile, CsvKey(input[i])) = 0

\* C33: a station claimed in a run that was killed or interrupted before
\* the station's line reached the store is not in the ledger the next run
\* loads; when its task comes in the next run it claims the pair and starts
\* the liveness check (unless a task of the same pair did so before it),
\* and when that run finishes the station's line is in the store.
C33_LostClaimRedone ==
    /\ [][(phase \in { "crashed", "interrupted" } /\ phase' = "running") =>
              \A i \in claimed :
                  RowsFor(file, CsvKey(input[i])) = 0 =>
                      Key(input[i]) \notin existing_entries']_vars
    /\ [][\A i \in Tasks :
              (NoLineFound(i) /\ phase = "running" /\ phase' = "running"
                  /\ task[i].at = "sem" /\ task'[i].at # "sem"
                  /\ Twins(i) \cap claimed = {}) =>
                  /\ i \in claimed'
                  /\ Key(input[i]) \in existing_entries'
                  /\ task'[i].at = "call" /\ task'[i].probe = "live"]_vars
    /\ [](\A i \in Tasks :
              NoLineFound(i) =>
                  /\ i \in skipped => (Twins(i) \ {i}) \cap claimed # {}
                  /\ phase = "finished" =>
                         RowsFor(file, CsvKey(input[i])) >= 1)

\* A run after a kill has finished.  The killed run was the first on an
\* empty store and left the header alone on disk: the buffer was flushed
\* by the write of a line, so the one station of the input had been claimed
\* and written, and its line was lost with the buffer.  This run claimed
\* the station again, and its line is in the store.
C33_Witness ==
    /\ phase = "finished"
    /\ prev = "crashed"
    /\ disk = "ok"
    /\ startFile = << Header >>
    /\ Len(input) = 1
    /\ 1 \in claimed
    /\ written[1] # << >>
    /\ OnDisk(written[1][1])


\* --------------------------------------------------------------------- C34
\* The pair the lookup is to give for an answer that lacks a component.
VoidPair(o) ==
    CASE o = "missing" -> << Unknown, Unknown >>
      [] o = "empty"   -> << Unknown, "56.78" >>

\* Task i steps into the geolocation lookup: as its first attempt, or as
\* the attempt after a sleep.
EntersLookup(i) ==
    /\ phase = "running" /\ phase' = "running"
    /\ task'[i] # task[i]
    /\ \/ task[i].at = "call" /\ task[i].probe = "live"
              /\ "geo" \notin task[i].calls /\ "geo_hit" \notin task[i].calls
              /\ task'[i].calls \cap { "geo", "geo_hit" } # {}
       \/ task[i].at = "sleep" /\ task[i].probe = "geo"

\* C34: a geolocation answer whose "loc" is missing or lacks a component
\* is a success: the task does not sleep or ask again, it goes on to the
\* media probe without the reverse geocoder, and the address is cached
\* with "?" for each component that is not there; from then on every
\* lookup of the address in the run gives the cached pair, sends no
\* request and leaves the cache as it is.
C34_UnknownLocationCached ==
    /\ [][\A i \in Tasks :
              (phase = "running" /\ phase' = "running"
                  /\ task[i].at = "call" /\ task[i].probe = "geo"
                  /\ task'[i] # task[i]
                  /\ task'[i].got.geo \in { "missing", "empty" }) =>
                  /\ task'[i].at = "call" /\ task'[i].probe = "media"
                  /\ task'[i].attempt = 1
                  /\ << task'[i].latitude, task'[i].longitude >>
                         = VoidPair(task'[i].got.geo)
                  /\ "rgeo" \notin task'[i].calls
                  /\ Has(ip_cache', task[i].ip)
                  /\ Get(ip_cache', task[i].ip) = VoidPair(task'[i].got.geo)]_vars
    /\ [][\A i \in Tasks :
              (EntersLookup(i) /\ Has(ip_cache, task'[i].ip)
                  /\ Unknown \in { Get(ip_cache, task'[i].ip)[1],
                                   Get(ip_cache, task'[i].ip)[2] }) =>
                  /\ task'[i].got.geo = "hit"
                  /\ "geo_hit" \in task'[i].calls
                  /\ (task'[i].calls \ task[i].calls)
                         \cap { "geo", "rgeo", "rgeo_hit", "rgeo_bad" } = {}
                  /\ task'[i].at = "call" /\ task'[i].probe = "media"
                  /\ << task'[i].latitude, task'[i].longitude >>
                         = Get(ip_cache, task'[i].ip)
                  /\ ip_cache' = ip_cache]_vars
    /\ [](\A i \in Tasks :
              (written[i] # << >> /\ task[i].got.geo = "hit"
                  /\ "geo" \notin task[i].calls) =>
                  \E j \in Tasks \ {i} :
                      /\ task[j].got.geo \in { "well", "missing", "empty" }
                      /\ task[j].got.geo \in { "missing", "empty" } =>
                             << written[i][1][6], written[i][1][7] >>
                                 = VoidPair(task[j].got.geo))

\* The geolocation of one station's address came without its latitude
\* and was cached; a later station of the same address got the cached
\* pair without a request, and its line has "?" for the latitude.
C34_Witness ==
    \E i, j \in Tasks :
        /\ task[j].got.geo = "empty"
        /\ task[j].attempt = 1
        /\ task[i].got.geo = "hit"
        /\ "geo" \notin task[i].calls
        /\ written[i] # << >>
        /\ written[i][1][6] = Unknown
        /\ written[i][1][7] = "56.78"


\* --------------------------------------------------------------------- C35
\* C35: a liveness attempt that gets a response with a status other than
\* 200 ends the liveness check at once: the station's record is written
\* with availability "0" in the same step and no further attempt is made;
\* a task sleeps before another liveness attempt only after an attempt
\* that raised and was not the last, and every such attempt is followed by
\* the sleep.
C35_StatusNotRetried ==
    /\ [][\A i \in Tasks :
              (phase = "running" /\ phase' = "running"
                  /\ task[i].at = "call" /\ task[i].probe = "live"
                  /\ task'[i] # task[i]) =>
                  /\ task'[i].live \in { "206", "404" } =>
                         /\ task'[i].at = "pace"
                         /\ written[i] = << >>
                         /\ Len(written'[i]) = 1
                         /\ written'[i][1][3] = "0"
                  /\ task'[i].at = "sleep" =>
                         /\ task'[i].live = "exc"
                         /\ task[i].attempt < LiveRetries
                  /\ (task'[i].live = "exc" /\ task[i].attempt < LiveRetries) =>
                         /\ task'[i].at = "sleep" /\ task'[i].probe = "live"
                         /\ written'[i] = << >>]_vars
    /\ [](\A i \in Tasks :
              task[i].live \in { "206", "404" } =>
                  /\ task[i].at \in { "pace", "done" }
                  /\ task[i].calls = { "live" })

\* A liveness attempt got a 404: the record is written, marked
\* unavailable, and the task is past process_radio.
C35_Witness ==
    \E i \in Tasks :
        /\ task[i].live = "404"
        /\ task[i].calls = { "live" }
        /\ task[i].at = "pace"
        /\ written[i] # << >>
        /\ written[i][1][3] = "0"

=============================================================================
